---- MODULE Spec2Model ----
(***************************************************************************)
(* VoronoiGenerator (src/main.c): main seeds the random generator, fills   *)
(* the image, draws SEEDS_COUNT random seeds, colours every pixel by its   *)
(* nearest seed, stamps a marker disc on every seed and writes the image   *)
(* as a binary PPM file.                                                   *)
(*                                                                         *)
(* The image is the C object  static Color image[HEIGHT][WIDTH] : a flat   *)
(* array of HEIGHT*WIDTH cells in which image[a][b] is the cell at offset  *)
(* a*WIDTH + b.  A Color is a uint32_t, kept here as its 32 bits (bit 0    *)
(* the least significant), so that shifts, masks and XOR are computed on   *)
(* the bits as the C operators compute them.                               *)
(***************************************************************************)
EXTENDS Integers, Sequences, FiniteSets

\* ---------------------------------------------------------------- bounds
\* The raster is WIDTH x HEIGHT with both sides drawn from 1..MaxDim.
MaxDim == 2
\* The marker radius is drawn from 0..MaxRadius.
MaxRadius == 2
\* rand() returns a value of 0..MaxRand.
MaxRand == 3
\* Number of seeds (50 in the source).
SEEDS_COUNT == 2

\* ------------------------------------------------------- 32-bit words
BitIdx == 0..31

\* Bit k of the non-negative integer n (n < 2^31).
Bit(n, k) == IF k >= 31 THEN 0 ELSE (n \div (2 ^ k)) % 2

\* The 32-bit word of a non-negative int n < 2^31.
Word(n) == [k \in BitIdx |-> Bit(n, k)]

\* The 32-bit word 0xHHHHLLLL given as its two 16-bit halves.
Word32(hi, lo) == [k \in BitIdx |-> IF k < 16 THEN Bit(lo, k) ELSE Bit(hi, k - 16)]

\* a & b
BitAnd(a, b) == [k \in BitIdx |-> a[k] * b[k]]

\* a ^ b
BitXor(a, b) == [k \in BitIdx |-> (a[k] + b[k]) % 2]

\* a << n on 32 bits (the bits shifted past bit 31 are lost)
Shl(a, n) == [k \in BitIdx |-> IF k >= n THEN a[k - n] ELSE 0]

\* a >> n on an unsigned 32-bit word
Shr(a, n) == [k \in BitIdx |-> IF k + n <= 31 THEN a[k + n] ELSE 0]

RECURSIVE BitsValue(_, _, _)
\* The number whose binary digits are bits from..to-1 of word a.
BitsValue(a, from, to) ==
    IF from >= to THEN 0 ELSE a[from] + 2 * BitsValue(a, from + 1, to)

\* (uint8_t) a
ToUint8(a) == BitsValue(a, 0, 8)

\* (uint16_t) n for an int n >= 0
ToUint16(n) == n % 65536

\* ------------------------------------------------------ program constants
COLOR_BLACK == Word32(65280, 0)            \* 0xFF000000
COLOR_BACKGROUND == Word32(65312, 5911)    \* 0xFF201717
SEED_MARKER_COLOR == COLOR_BLACK
OUTPUT_FILE_PATH == "output.ppm"

\* The raster of the source, used where a claim is about its real size.
SRC_WIDTH == 1000
SRC_HEIGHT == 1000

VARIABLES
    WIDTH,              \* #define WIDTH
    HEIGHT,             \* #define HEIGHT
    SEED_MARKER_RADIUS, \* #define SEED_MARKER_RADIUS
    pc,                 \* the statement main (or SaveImageAsPPM) is at
    image,              \* static Color image[HEIGHT][WIDTH], by flat offset
    seeds,              \* static Vec2 seeds[SEEDS_COUNT]
    i,                  \* the loop index of GenerateRandomSeeds / RenderSeedMarkers
    px,                 \* SaveImageAsPPM's pixel loop: y*WIDTH + x
    file,               \* the FILE* of SaveImageAsPPM
    header,             \* what the two header fprintf calls wrote to the file
    body,               \* the byte triples fwrite wrote to the file
    errout,             \* what was written to stderr
    exitCode,           \* the process's exit status, -1 while it runs
    srandCalls,         \* how often srand was called
    nullOps,            \* stream operations attempted on a NULL FILE*
    stages,             \* history: the calls main has made, in order
    writer,             \* history: which function last stored into each cell
    writes,             \* history: the index pairs <<a, b>> of the stores image[a][b] = ..
                        \*          made by the most recent image-writing call
    selected,           \* history: closestSeedIdx as RenderVoronoi chose it, per cell
    call,               \* history: the most recent FillCircle call and the image before it
    probe               \* the arguments and results of the colour probe (SpecColor)

vars == <<WIDTH, HEIGHT, SEED_MARKER_RADIUS, pc, image, seeds, i, px, file, header,
          body, errout, exitCode, srandCalls, nullOps, stages, writer, writes,
          selected, call, probe>>

Cells == 0..(WIDTH * HEIGHT - 1)
SeedIdx == 0..(SEEDS_COUNT - 1)
NoCall == [origin |-> [x |-> 0, y |-> 0], radius |-> -1, color |-> Word(0), before |-> << >>]
NoProbe == [state |-> "off"]


\* ------------------------------------------------------------ the image
\* The image-side state the rendering functions work on.
Mem == [image |-> image, writer |-> writer, writes |-> {}, selected |-> selected,
        failed |-> FALSE]

\* Whether the store image[a][b] = .. stays inside the image object.
InObject(a, b) == (a * WIDTH + b) \in Cells

\* image[a][b] = color, made by function who.  The cell addressed is the one at
\* offset a*WIDTH + b.  An index out of its range is undefined behaviour: the store
\* still lands in the image when the offset is inside the object, and outside it
\* the store hits other memory (or traps, see AfterStores) and no cell changes.
Store(m, a, b, color, who) ==
    LET off == a * WIDTH + b IN
    [m EXCEPT !.image = IF off \in Cells THEN [@ EXCEPT ![off] = color] ELSE @,
              !.writer = IF off \in Cells THEN [@ EXCEPT ![off] = who] ELSE @,
              !.writes = @ \cup {<<a, b>>}]

\* Where control may be after a call that made the stores of m: a store outside
\* the image object may kill the process (SIGSEGV) or go unnoticed.
AfterStores(m, next) ==
    IF \E w \in m.writes : ~InObject(w[1], w[2]) THEN {next, "crashed"} ELSE {next}

RECURSIVE FillImageX(_, _, _, _)
\* The inner loop of FillImage from column x on: image[x][y] = color.
FillImageX(m, y, x, color) ==
    IF x < WIDTH
    THEN FillImageX(Store(m, x, y, color, "FillImage"), y, x + 1, color)
    ELSE m

RECURSIVE FillImageY(_, _, _)
\* The outer loop of FillImage from row y on.
FillImageY(m, y, color) ==
    IF y < HEIGHT
    THEN FillImageY(FillImageX(m, y, 0, color), y + 1, color)
    ELSE m

FillImage(m, color) == FillImageY(m, 0, color)

\* dx*dx + dy*dy in int; no overflow for coordinates of this size.
SquareDistance(a, b) ==
    LET dx == a.x - b.x
        dy == a.y - b.y
    IN dx * dx + dy * dy

\* RowInBuffer without its upper test.
RowInBufferNoUpper(y) == 0 <= y

\* The two clipping tests of FillCircle.
ColumnInBuffer(x) == 0 <= x /\ x < WIDTH
RowInBuffer(y) == 0 <= y /\ y < HEIGHT

\* The half-open range of the two loops of FillCircle along one axis.
CircleBegin(c, radius) == c - radius
CircleEnd(c, radius) == c + radius

RECURSIVE FillCircleY(_, _, _, _, _, _)
\* The inner loop of FillCircle in column x from row y on.
FillCircleY(m, origin, radius, color, x, y) ==
    IF y < CircleEnd(origin.y, radius)
    THEN IF ~RowInBuffer(y)
         THEN FillCircleY(m, origin, radius, color, x, y + 1)
         ELSE IF SquareDistance(origin, [x |-> x, y |-> y]) <= radius * radius
              THEN FillCircleY(Store(m, y, x, color, "FillCircle"),
                               origin, radius, color, x, y + 1)
              ELSE FillCircleY(m, origin, radius, color, x, y + 1)
    ELSE m

RECURSIVE FillCircleX(_, _, _, _, _)
\* The outer loop of FillCircle from column x on.
FillCircleX(m, origin, radius, color, x) ==
    IF x < CircleEnd(origin.x, radius)
    THEN IF ~ColumnInBuffer(x)
         THEN FillCircleX(m, origin, radius, color, x + 1)
         ELSE FillCircleX(
                  FillCircleY(m, origin, radius, color, x, CircleBegin(origin.y, radius)),
                  origin, radius, color, x + 1)
    ELSE m

FillCircle(m, origin, radius, color) ==
    FillCircleX(m, origin, radius, color, CircleBegin(origin.x, radius))

\* RandCoord without the reduction modulo the side.
RandCoordNoMod(r, dim) == r

\* seeds[i].x = rand() % WIDTH, for the value r that rand() returned.
RandCoord(r, dim) == r % dim

\* The four assertions of SeedToColor.
SeedAssertions(point) ==
    /\ point.x >= 0
    /\ point.y >= 0
    /\ point.x < 65536
    /\ point.y < 65536

\* SeedToColor shifting x by 8 bits only.
SeedToColorShift8(point) ==
    BitXor(Shl(Word(ToUint16(point.x)), 8), Word(ToUint16(point.y)))

\* (lf << 16) ^ rg with lf, rg the uint16_t of the coordinates.  The shift is
\* made in int: it overflows only for lf >= 32768, which no raster here reaches.
SeedToColor(point) ==
    LET lf == ToUint16(point.x)
        rg == ToUint16(point.y)
    IN BitXor(Shl(Word(lf), 16), Word(rg))

\* Closer with a non-strict comparison: the last of equally near seeds wins.
CloserOrEqual(currDist, closestDist) == currDist <= closestDist

\* The comparison that moves closestSeedIdx to seed i.
Closer(currDist, closestDist) == currDist < closestDist

RECURSIVE ClosestSeed(_, _, _, _)
\* The seed loop of RenderVoronoi from index k on, closestSeedIdx being idx.
ClosestSeed(sd, point, k, idx) ==
    IF k < SEEDS_COUNT
    THEN LET currDist == SquareDistance(sd[k], point)
             closestDist == SquareDistance(sd[idx], point)
         IN ClosestSeed(sd, point, k + 1, IF Closer(currDist, closestDist) THEN k ELSE idx)
    ELSE idx

\* The body of the pixel loop of RenderVoronoi at (x, y).
RenderPixel(m, sd, x, y) ==
    LET closestSeedIdx == ClosestSeed(sd, [x |-> x, y |-> y], 1, 0)
        seedPos == [x |-> sd[closestSeedIdx].x, y |-> sd[closestSeedIdx].y]
        chosen == [m EXCEPT !.selected = [@ EXCEPT ![y * WIDTH + x] = closestSeedIdx]]
    IN IF SeedAssertions(seedPos)
       THEN Store(chosen, y, x, SeedToColor(seedPos), "RenderVoronoi")
       ELSE [chosen EXCEPT !.failed = TRUE]

RECURSIVE RenderVoronoiX(_, _, _, _)
RenderVoronoiX(m, sd, y, x) ==
    IF x < WIDTH /\ ~m.failed
    THEN RenderVoronoiX(RenderPixel(m, sd, x, y), sd, y, x + 1)
    ELSE m

RECURSIVE RenderVoronoiY(_, _, _)
RenderVoronoiY(m, sd, y) ==
    IF y < HEIGHT /\ ~m.failed
    THEN RenderVoronoiY(RenderVoronoiX(m, sd, y, 0), sd, y + 1)
    ELSE m

\* RenderVoronoi, up to its return or to the first failed assertion.
RenderVoronoi(m, sd) == RenderVoronoiY(m, sd, 0)

\* PixelBytes in the opposite byte order.
PixelBytesReversed(pixel) ==
    << ToUint8(Shr(BitAnd(pixel, Word(16711680)), 8 * 2)),
       ToUint8(Shr(BitAnd(pixel, Word(65280)), 8 * 1)),
       ToUint8(Shr(BitAnd(pixel, Word(255)), 8 * 0)) >>

\* PixelBytes with the third byte taken from bits 24..31.
PixelBytesTopByte(pixel) ==
    << ToUint8(Shr(BitAnd(pixel, Word(255)), 8 * 0)),
       ToUint8(Shr(BitAnd(pixel, Word(65280)), 8 * 1)),
       ToUint8(Shr(pixel, 8 * 3)) >>

\* The three bytes SaveImageAsPPM writes for one pixel.
PixelBytes(pixel) ==
    << ToUint8(Shr(BitAnd(pixel, Word(255)), 8 * 0)),
       ToUint8(Shr(BitAnd(pixel, Word(65280)), 8 * 1)),
       ToUint8(Shr(BitAnd(pixel, Word(16711680)), 8 * 2)) >>

\* The two header lines, as fprintf formats them.
HeaderMagic == "P6\n"
HeaderDims == <<WIDTH, " ", HEIGHT, " 255\n">>

\* StageAfter with the image saved before the markers are drawn.
StageAfterSaveFirst(s) ==
    CASE s = "srand" -> "FillImage"
      [] s = "FillImage" -> "GenerateRandomSeeds"
      [] s = "GenerateRandomSeeds" -> "RenderVoronoi"
      [] s = "RenderVoronoi" -> "SaveImageAsPPM"
      [] s = "SaveImageAsPPM" -> "RenderSeedMarkers"
      [] s = "RenderSeedMarkers" -> "return"

\* The statement of main that follows statement s.
StageAfter(s) ==
    CASE s = "srand" -> "FillImage"
      [] s = "FillImage" -> "GenerateRandomSeeds"
      [] s = "GenerateRandomSeeds" -> "RenderVoronoi"
      [] s = "RenderVoronoi" -> "RenderSeedMarkers"
      [] s = "RenderSeedMarkers" -> "SaveImageAsPPM"
      [] s = "SaveImageAsPPM" -> "return"


\* -------------------------------------------------------------- the run
\* The process as it starts: the static arrays are zero-initialised.
Init ==
    /\ WIDTH \in 1..MaxDim
    /\ HEIGHT \in 1..MaxDim
    /\ SEED_MARKER_RADIUS \in 0..MaxRadius
    /\ pc = "srand"
    /\ image = [c \in Cells |-> Word(0)]
    /\ seeds = [k \in SeedIdx |-> [x |-> 0, y |-> 0]]
    /\ i = 0
    /\ px = 0
    /\ file = "unopened"
    /\ header = << >>
    /\ body = << >>
    /\ errout = << >>
    /\ exitCode = -1
    /\ srandCalls = 0
    /\ nullOps = 0
    /\ stages = << >>
    /\ writer = [c \in Cells |-> "static"]
    /\ writes = {}
    /\ selected = [c \in Cells |-> -1]
    /\ call = NoCall
    /\ probe = NoProbe

config == <<WIDTH, HEIGHT, SEED_MARKER_RADIUS>>
imageVars == <<image, writer, writes, selected, call>>
fileVars == <<file, header, body, errout, nullOps, px>>

\* srand(time(0));
Srand ==
    /\ pc = "srand"
    /\ srandCalls' = srandCalls + 1
    /\ stages' = Append(stages, "srand")
    /\ pc' = StageAfter("srand")
    /\ UNCHANGED <<config, imageVars, fileVars, seeds, i, exitCode, probe>>

\* FillImage(COLOR_BACKGROUND);
DoFillImage ==
    /\ pc = "FillImage"
    /\ LET m == FillImage(Mem, COLOR_BACKGROUND) IN
        /\ image' = m.image
        /\ writer' = m.writer
        /\ writes' = m.writes
        /\ pc' \in AfterStores(m, StageAfter("FillImage"))
        /\ exitCode' = IF pc' = "crashed" THEN 139 ELSE exitCode
    /\ stages' = Append(stages, "FillImage")
    /\ UNCHANGED <<config, fileVars, seeds, i, selected, call, srandCalls, probe>>

\* One iteration of the loop of GenerateRandomSeeds(); the last one returns.
DoGenerateRandomSeeds ==
    /\ pc = "GenerateRandomSeeds"
    /\ i < SEEDS_COUNT
    /\ \E rx \in 0..MaxRand, ry \in 0..MaxRand :
          seeds' = [seeds EXCEPT ![i] = [x |-> RandCoord(rx, WIDTH),
                                         y |-> RandCoord(ry, HEIGHT)]]
    /\ stages' = IF i = 0 THEN Append(stages, "GenerateRandomSeeds") ELSE stages
    /\ IF i + 1 < SEEDS_COUNT
       THEN i' = i + 1 /\ pc' = pc
       ELSE i' = 0 /\ pc' = StageAfter("GenerateRandomSeeds")
    /\ UNCHANGED <<config, imageVars, fileVars, exitCode, srandCalls, probe>>

\* RenderVoronoi();
DoRenderVoronoi ==
    /\ pc = "RenderVoronoi"
    /\ LET m == RenderVoronoi(Mem, seeds) IN
        /\ image' = m.image
        /\ writer' = m.writer
        /\ writes' = m.writes
        /\ selected' = m.selected
        /\ pc' \in IF m.failed THEN {"aborted"}
                   ELSE AfterStores(m, StageAfter("RenderVoronoi"))
        /\ exitCode' = CASE pc' = "aborted" -> 134
                         [] pc' = "crashed" -> 139
                         [] OTHER -> exitCode
    /\ stages' = Append(stages, "RenderVoronoi")
    /\ UNCHANGED <<config, fileVars, seeds, i, call, srandCalls, probe>>

\* One iteration of the loop of RenderSeedMarkers(): a FillCircle call; the last
\* one returns.
DoRenderSeedMarkers ==
    /\ pc = "RenderSeedMarkers"
    /\ i < SEEDS_COUNT
    /\ LET m == FillCircle(Mem, seeds[i], SEED_MARKER_RADIUS, SEED_MARKER_COLOR)
           next == IF i + 1 < SEEDS_COUNT THEN pc ELSE StageAfter("RenderSeedMarkers")
       IN
        /\ image' = m.image
        /\ writer' = m.writer
        /\ writes' = m.writes
        /\ call' = [origin |-> seeds[i], radius |-> SEED_MARKER_RADIUS,
                    color |-> SEED_MARKER_COLOR, before |-> image]
        /\ pc' \in AfterStores(m, next)
        /\ exitCode' = IF pc' = "crashed" THEN 139 ELSE exitCode
        /\ i' = IF pc' = "RenderSeedMarkers" THEN i + 1 ELSE 0
    /\ stages' = IF i = 0 THEN Append(stages, "RenderSeedMarkers") ELSE stages
    /\ UNCHANGED <<config, fileVars, seeds, selected, srandCalls, probe>>

\* FILE *file = fopen(filePath, "wb");  the open succeeds or fails.
Fopen ==
    /\ pc = "SaveImageAsPPM"
    /\ file' \in {"open", "NULL"}
    /\ stages' = Append(stages, "SaveImageAsPPM")
    /\ pc' = "fprintf_magic"
    /\ UNCHANGED <<config, imageVars, seeds, i, px, header, body, errout, nullOps,
                   exitCode, srandCalls, probe>>

\* fprintf(file, ..) of one header line, before file is tested.  On a NULL file
\* the call is undefined behaviour: the process dies in it (SIGSEGV), or the call
\* fails and returns.
HeaderWrite(at, text, next) ==
    /\ pc = at
    /\ IF file = "open"
       THEN /\ header' = Append(header, text)
            /\ pc' = next
            /\ UNCHANGED nullOps
       ELSE /\ nullOps' = nullOps + 1
            /\ pc' \in {next, "crashed"}
            /\ UNCHANGED header
    /\ exitCode' = IF pc' = "crashed" THEN 139 ELSE exitCode
    /\ UNCHANGED <<config, imageVars, seeds, i, px, file, body, errout, stages,
                   srandCalls, probe>>

FprintfMagic == HeaderWrite("fprintf_magic", HeaderMagic, "fprintf_dims")
FprintfDims == HeaderWrite("fprintf_dims", HeaderDims, "check_file")

\* if (file == NULL) { fprintf(stderr, ..); exit(1); }
CheckFile ==
    /\ pc = "check_file"
    /\ IF file = "NULL"
       THEN /\ errout' = Append(errout, <<"ERROR: cannot write into file ",
                                          OUTPUT_FILE_PATH, ": ", "strerror(errno)">>)
            /\ exitCode' = 1
            /\ pc' = "exited"
       ELSE /\ pc' = "write_pixel"
            /\ UNCHANGED <<errout, exitCode>>
    /\ UNCHANGED <<config, imageVars, seeds, i, px, file, header, body, nullOps,
                   stages, srandCalls, probe>>

\* One iteration of the pixel loop of SaveImageAsPPM, px being y*WIDTH + x:
\* the fwrite succeeds, or fails and assert(!ferror(file)) aborts.
WritePixel ==
    /\ pc = "write_pixel"
    /\ px < WIDTH * HEIGHT
    /\ LET y == px \div WIDTH
           x == px % WIDTH
           pixel == image[y * WIDTH + x]
       IN \E ok \in BOOLEAN :
            IF ok
            THEN /\ body' = Append(body, PixelBytes(pixel))
                 /\ px' = px + 1
                 /\ pc' = IF px + 1 < WIDTH * HEIGHT THEN pc ELSE "fclose"
                 /\ UNCHANGED exitCode
            ELSE /\ pc' = "aborted"
                 /\ exitCode' = 134
                 /\ UNCHANGED <<body, px>>
    /\ UNCHANGED <<config, imageVars, seeds, i, file, header, errout, nullOps,
                   stages, srandCalls, probe>>

\* int err = fclose(file); assert(err == 0);
Fclose ==
    /\ pc = "fclose"
    /\ file' = "closed"
    /\ \E err \in {0, -1} :
          IF err = 0
          THEN pc' = StageAfter("SaveImageAsPPM") /\ UNCHANGED exitCode
          ELSE pc' = "aborted" /\ exitCode' = 134
    /\ UNCHANGED <<config, imageVars, seeds, i, px, header, body, errout, nullOps,
                   stages, srandCalls, probe>>

\* return 0;
Return ==
    /\ pc = "return"
    /\ exitCode' = 0
    /\ pc' = "done"
    /\ UNCHANGED <<config, imageVars, fileVars, seeds, i, stages, srandCalls, probe>>

Next ==
    \/ Srand
    \/ DoFillImage
    \/ DoGenerateRandomSeeds
    \/ DoRenderVoronoi
    \/ DoRenderSeedMarkers
    \/ Fopen
    \/ FprintfMagic
    \/ FprintfDims
    \/ CheckFile
    \/ WritePixel
    \/ Fclose
    \/ Return

Spec == Init /\ [][Next]_vars


\* ------------------------------------------------------ the colour probe
\* SeedToColor followed by the byte extraction of SaveImageAsPPM, applied to two
\* seeds of the source's 1000 x 1000 raster (the image itself is not part of it).
ProbeXs == {0, 1, 255, 256, 257, 512, 999}
ProbeYs == {0, 1, 256, 999}
ProbeSeeds == [x : ProbeXs, y : ProbeYs]

InitColor ==
    /\ WIDTH = SRC_WIDTH
    /\ HEIGHT = SRC_HEIGHT
    /\ SEED_MARKER_RADIUS = 0
    /\ pc = "probe"
    /\ image = << >>
    /\ seeds = [k \in SeedIdx |-> [x |-> 0, y |-> 0]]
    /\ i = 0
    /\ px = 0
    /\ file = "unopened"
    /\ header = << >>
    /\ body = << >>
    /\ errout = << >>
    /\ exitCode = -1
    /\ srandCalls = 0
    /\ nullOps = 0
    /\ stages = << >>
    /\ writer = << >>
    /\ writes = {}
    /\ selected = << >>
    /\ call = NoCall
    /\ \E s \in ProbeSeeds, t \in ProbeSeeds : probe = [state |-> "seeds", s |-> s, t |-> t]

\* image[y][x] = SeedToColor(seedPos), for a pixel of each seed's region.
ProbeColor ==
    /\ pc = "probe"
    /\ probe.state = "seeds"
    /\ SeedAssertions(probe.s) /\ SeedAssertions(probe.t)
    /\ probe' = [state |-> "colored", s |-> probe.s, t |-> probe.t,
                 cs |-> SeedToColor(probe.s), ct |-> SeedToColor(probe.t)]
    /\ UNCHANGED <<config, imageVars, fileVars, pc, seeds, i, exitCode, srandCalls, stages>>

\* The bytes SaveImageAsPPM writes for the two pixels.
ProbeBytes ==
    /\ pc = "probe"
    /\ probe.state = "colored"
    /\ probe' = [state |-> "written", s |-> probe.s, t |-> probe.t,
                 cs |-> probe.cs, ct |-> probe.ct,
                 bs |-> PixelBytes(probe.cs), bt |-> PixelBytes(probe.ct)]
    /\ UNCHANGED <<config, imageVars, fileVars, pc, seeds, i, exitCode, srandCalls, stages>>

NextColor ==
    \/ ProbeColor
    \/ ProbeBytes

SpecColor == InitColor /\ [][NextColor]_vars

\* ---------------------------------------------------------------- claims
\* Auxiliary notions of the claims.
Pixels == {p \in [x : 0..(WIDTH - 1), y : 0..(HEIGHT - 1)] : TRUE}
CellOf(p) == p.y * WIDTH + p.x
Dist2(a, b) == (a.x - b.x) * (a.x - b.x) + (a.y - b.y) * (a.y - b.y)
Called(stage) == \E k \in 1..Len(stages) : stages[k] = stage
LastCalled == IF stages = << >> THEN "none" ELSE stages[Len(stages)]
MainOrder == <<"srand", "FillImage", "GenerateRandomSeeds", "RenderVoronoi",
               "RenderSeedMarkers", "SaveImageAsPPM">>
IsPrefix(a, b) == Len(a) <= Len(b) /\ \A k \in 1..Len(a) : a[k] = b[k]

\* The smallest index of a seed that no seed is strictly nearer to p than.
NearestFirst(p) ==
    CHOOSE k \in SeedIdx :
        /\ \A j \in SeedIdx : Dist2(seeds[j], p) >= Dist2(seeds[k], p)
        /\ \A j \in SeedIdx : j < k => Dist2(seeds[j], p) > Dist2(seeds[k], p)

\* C1: once RenderVoronoi has run, the seed index it selected for every pixel is
\* the smallest index of a nearest seed (squared Euclidean distance): a nearest
\* seed, and among equally near seeds the earliest in the seeds' order.
C1_NearestSeedEarliestWins ==
    (Called("RenderVoronoi") /\ pc # "aborted")
        => \A p \in Pixels : selected[CellOf(p)] = NearestFirst(p)

\* Witness of C1: RenderVoronoi has run, some pixel is equally near to two
\* different seeds, and some pixel was given a seed other than seed 0.
C1_Witness ==
    /\ Called("RenderVoronoi")
    /\ \E p \in Pixels : \E j \in SeedIdx, k \in SeedIdx :
          /\ j < k /\ seeds[j] # seeds[k]
          /\ Dist2(seeds[j], p) = Dist2(seeds[k], p)
          /\ selected[CellOf(p)] = j
    /\ \E p \in Pixels : selected[CellOf(p)] > 0

\* The pixels of the disc of the most recent FillCircle call.
InDisc(p) == Dist2(p, call.origin) <= call.radius * call.radius

\* C2: a FillCircle call with radius >= 1 sets to its colour exactly the in-bounds
\* pixels with (x-center.x)^2 + (y-center.y)^2 <= radius^2 and leaves every
\* other pixel as it was.
C2_FillCircleExactDisc ==
    call.radius >= 1
        => \A p \in Pixels :
              image[CellOf(p)] = IF InDisc(p) THEN call.color ELSE call.before[CellOf(p)]

\* C3: when the output file cannot be opened, nothing is attempted on the
\* unopened handle: the run goes on to the diagnostic and exit code 1.
C3_NoUseOfUnopenedFile ==
    file = "NULL" => (nullOps = 0 /\ pc # "crashed")

\* The low-order 24 bits of a colour, as a number.
Low24(color) == BitsValue(color, 0, 24)

\* C4: the k-th byte triple written after the header is that of pixel
\* (x, y) with y*WIDTH + x = k-1 (row-major, row 0 first): b0 + 256*b1 + 65536*b2
\* is the low-order 24 bits of image[y][x]; a save that succeeded wrote
\* exactly WIDTH*HEIGHT triples.
C4_BytesAreLow24RowMajor ==
    /\ \A k \in 1..Len(body) :
          /\ k <= WIDTH * HEIGHT
          /\ \A b \in 1..3 : body[k][b] \in 0..255
          /\ body[k][1] + 256 * body[k][2] + 65536 * body[k][3] = Low24(image[k - 1])
    /\ pc \in {"return", "done"} => Len(body) = WIDTH * HEIGHT

\* Witness of C4: a save has succeeded on an image of more than one row and one
\* column that holds a marker pixel (top byte 0xFF) and a region pixel whose
\* three bytes are not all equal.
C4_Witness ==
    /\ pc = "done"
    /\ WIDTH > 1 /\ HEIGHT > 1
    /\ \E c \in Cells : image[c] = SEED_MARKER_COLOR
    /\ \E k \in 1..Len(body) : body[k][1] # body[k][3]

\* C5: every store of a FillCircle call (radius >= 0, the seed inside the
\* buffer) is to a cell image[y][x] with 0 <= y < HEIGHT and 0 <= x < WIDTH.
C5_FillCircleStoresInBounds ==
    call.radius >= 0
        => \A w \in writes : 0 <= w[1] /\ w[1] < HEIGHT /\ 0 <= w[2] /\ w[2] < WIDTH

\* Witness of C5: a marker was drawn on the seed at (WIDTH-1, HEIGHT-1) and one
\* on the seed at (0, 0), with a disc whose bounding square passes both the low
\* and the high edges of the buffer, and pixels were painted.
C5_Witness ==
    /\ pc = "SaveImageAsPPM"
    /\ call.radius >= 2
    /\ call.origin = [x |-> WIDTH - 1, y |-> HEIGHT - 1]
    /\ \E k \in SeedIdx : seeds[k] = [x |-> 0, y |-> 0]
    /\ call.origin.y + call.radius - 1 >= HEIGHT
    /\ call.origin.x - call.radius < 0
    /\ writes # {}

\* The seeds of the end-to-end scenario: (2,2) first, then (7,7).
ScenarioSeeds == [k \in SeedIdx |-> IF k = 0 THEN [x |-> 2, y |-> 2] ELSE [x |-> 7, y |-> 7]]
ScenarioColor(p) == SeedToColor(ScenarioSeeds[ClosestSeed(ScenarioSeeds, p, 1, 0)])

\* C6: after RenderVoronoi and before the markers every pixel holds
\* (s.x << 16) XOR s.y for the seed s selected for it, whatever the pixel's own
\* coordinates; with seeds (2,2) and (7,7), pixel (0,0) gets 0x20002 and pixel
\* (9,9) the colour of seed (7,7).
C6_ColorIsShiftedXXorY ==
    /\ (pc = "RenderSeedMarkers" /\ i = 0) =>
          \A p \in Pixels :
              LET s == seeds[selected[CellOf(p)]] IN
              \A k \in BitIdx :
                  image[CellOf(p)][k]
                      = ((IF k >= 16 THEN Bit(s.x, k - 16) ELSE 0) + Bit(s.y, k)) % 2
    /\ BitsValue(ScenarioColor([x |-> 0, y |-> 0]), 0, 31) = 131074
    /\ BitsValue(ScenarioColor([x |-> 9, y |-> 9]), 0, 31) = 7 * 65536 + 7

\* Witness of C6: RenderVoronoi has just run with two seeds of different
\* colours, one of them with x # y and x > 0, and both colours are in the image.
C6_Witness ==
    /\ pc = "RenderSeedMarkers" /\ i = 0
    /\ \E c \in Cells, d \in Cells : image[c] # image[d]
    /\ \E c \in Cells : LET s == seeds[selected[c]] IN s.x > 0 /\ s.x # s.y

\* C7: FillImage accesses only cells with a row index in [0, HEIGHT) and a
\* column index in [0, WIDTH), and when it returns every pixel holds the colour.
C7_FillImageFillsInBounds ==
    LastCalled = "FillImage"
        => /\ \A w \in writes : 0 <= w[1] /\ w[1] < HEIGHT /\ 0 <= w[2] /\ w[2] < WIDTH
           /\ pc # "crashed" => \A c \in Cells : image[c] = COLOR_BACKGROUND

\* C8: main calls srand (once), FillImage, GenerateRandomSeeds, RenderVoronoi,
\* RenderSeedMarkers and SaveImageAsPPM in this order; when SaveImageAsPPM reads
\* its first pixel every pixel was last stored by RenderVoronoi or by a marker;
\* and from the end of RenderSeedMarkers on no step changes the image or the seeds.
C8_StagesInOrder ==
    /\ [](/\ IsPrefix(stages, MainOrder)
          /\ srandCalls = (IF stages = << >> THEN 0 ELSE 1)
          /\ pc = "write_pixel" =>
                \A c \in Cells : writer[c] \in {"RenderVoronoi", "FillCircle"})
    /\ [][Called("SaveImageAsPPM") \/ pc = "SaveImageAsPPM"
              => image' = image /\ seeds' = seeds]_vars

\* Witness of C8: a run has ended after a successful save, with marker pixels
\* and region pixels in the image.
C8_Witness ==
    /\ pc = "done"
    /\ stages = MainOrder
    /\ \E c \in Cells : writer[c] = "FillCircle"
    /\ \E c \in Cells : writer[c] = "RenderVoronoi"

\* C9: from the return of GenerateRandomSeeds on every seed lies in
\* [0, WIDTH) x [0, HEIGHT) (and so does every seed already drawn before);
\* RenderVoronoi and RenderSeedMarkers leave the seeds as they are; and no
\* assertion of SeedToColor fails in RenderVoronoi.
C9_SeedsInRaster ==
    /\ [](/\ \A k \in SeedIdx :
               (Called("RenderVoronoi") \/ pc = "RenderVoronoi"
                    \/ (pc = "GenerateRandomSeeds" /\ k < i))
                 => /\ 0 <= seeds[k].x /\ seeds[k].x < WIDTH
                    /\ 0 <= seeds[k].y /\ seeds[k].y < HEIGHT
          /\ LastCalled = "RenderVoronoi" => pc # "aborted")
    /\ [][(pc \in {"RenderVoronoi", "RenderSeedMarkers"}) => seeds' = seeds]_vars

\* Witness of C9: the seeds were drawn from rand() values of which one was not
\* below the side it was reduced by, a seed sits on the last column and row, and
\* RenderVoronoi has run.
C9_Witness ==
    /\ Called("RenderVoronoi")
    /\ MaxRand >= WIDTH
    /\ \E k \in SeedIdx : seeds[k] = [x |-> WIDTH - 1, y |-> HEIGHT - 1]
    /\ \E k \in SeedIdx : seeds[k] # seeds[0]

\* The seeds of the probe lie in the raster.
ProbeInRaster(s) == 0 <= s.x /\ s.x < WIDTH /\ 0 <= s.y /\ s.y < HEIGHT

\* C10 as stated: two seeds of the raster with different coordinates give
\* different 3-byte values in the written image.
C10_DistinctSeedsDistinctBytes ==
    (probe.state = "written" /\ ProbeInRaster(probe.s) /\ ProbeInRaster(probe.t)
        /\ probe.s # probe.t)
        => probe.bs # probe.bt

\* C10 amended: two seeds of the raster give the same 3-byte value exactly
\* when they have the same y and their x are congruent modulo 256; every other
\* pair of seeds gives different values.
C10_BytesEqualIffSameYAndXMod256 ==
    (probe.state = "written" /\ ProbeInRaster(probe.s) /\ ProbeInRaster(probe.t))
        => ((probe.bs = probe.bt)
              <=> (probe.s.y = probe.t.y /\ probe.s.x % 256 = probe.t.x % 256))

\* Witness of C10: two different seeds whose written bytes were compared, with
\* x coordinates 256 apart, and the colours themselves differ.
C10_Witness ==
    /\ probe.state = "written"
    /\ probe.s.x = probe.t.x + 256
    /\ probe.s.y = probe.t.y
    /\ probe.cs # probe.ct

====
